---- MODULE Spec2Model ----
(***************************************************************************)
(* Model of the SSI framing core of rusty-ssi (src/src/lib.rs): the        *)
(* byte <-> enum tables, calc_checksum, decode, wrap and the read /        *)
(* decode / acknowledge loop of run.                                       *)
(*                                                                         *)
(* Bytes are naturals 0..255, u16 values naturals 0..65535, i16 values     *)
(* integers -32768..32767.  Rust's +, sum() and unary - abort the program  *)
(* on overflow when the build has overflow checks (the dev profile) and    *)
(* wrap when it has not (the release profile); the variable                *)
(* overflow_checks is that property of the build and every arithmetic      *)
(* operator below reports the wrapped value together with an overflow flag.*)
(***************************************************************************)
EXTENDS Integers, Sequences, FiniteSets

VARIABLES
  overflow_checks, \* TRUE: the build aborts on integer overflow; FALSE: it wraps
  pc,              \* position of the thread of control
  read_result,     \* what the latest port.read returned: "Ok", "TimedOut", "Err"
  message,         \* &serial_buf[..t] of the latest successful read
  response,        \* decode(message) of the current iteration, NoResponse before it
  panic,           \* NoPanic, or the message of the panic that ended the program
  port_out,        \* the buffers handed to port.write, oldest first
  console,         \* the lines printed by the current iteration
  reads,           \* number of port.read calls made so far
  fields,          \* argument of wrap in the codec specification
  val,             \* argument byte in the table specification
  conv             \* latest conversion applied to val in the table specification

vars == <<overflow_checks, pc, read_result, message, response, panic,
          port_out, console, reads, fields, val, conv>>

(***************************************************************************)
(* Bounds of the model.                                                    *)
(***************************************************************************)
MaxRawLen == 3     \* unframed read buffers have 0..MaxRawLen bytes
MaxData == 1       \* framed read buffers carry 0..MaxData data bytes
MaxFill == 256     \* long read buffers carry MaxFill-1..MaxFill+1 bytes 0xff
MaxReads == 2      \* port.read calls per run
MaxFields == 4     \* short arguments of wrap have 0..MaxFields bytes

(***************************************************************************)
(* Fixed-width integers.                                                   *)
(***************************************************************************)
U8Modulus == 256
U16Modulus == 65536
I16Min == -32768
BufSize == 1000

Byte == 0..(U8Modulus - 1)

\* bit k of byte b
Bit(b, k) == (b \div (2 ^ k)) % 2

\* a + b on u16: the wrapped value and whether it overflowed
add_u16(a, b) ==
  [val |-> (a + b) % U16Modulus, overflow |-> a + b >= U16Modulus]

\* a + b on u8
add_u8(a, b) ==
  [val |-> (a + b) % U8Modulus, overflow |-> a + b >= U8Modulus]

\* i16::from_be_bytes([hi, lo])
i16_from_be_bytes(hi, lo) ==
  LET u == hi * U8Modulus + lo
  IN IF u >= -I16Min THEN u - U16Modulus ELSE u

\* x as i16, for a u16 x
u16_as_i16(x) == IF x >= -I16Min THEN x - U16Modulus ELSE x

\* x as u16, for an i16 x
i16_as_u16(x) == IF x < 0 THEN x + U16Modulus ELSE x

\* -x on i16: -I16Min is not an i16; it wraps to I16Min
neg_i16(x) ==
  IF x = I16Min THEN [val |-> I16Min, overflow |-> TRUE]
  ELSE [val |-> -x, overflow |-> FALSE]

\* x.to_be_bytes() for an i16 x
i16_to_be_bytes(x) ==
  LET u == i16_as_u16(x) IN <<u \div U8Modulus, u % U8Modulus>>

(***************************************************************************)
(* Status: bitflags over u8 with the three named bits.                     *)
(***************************************************************************)
StatusRetransmit == 1
StatusContinuation == 2
StatusChangeType == 8

\* Status::from_bits_truncate: keeps the named bits, drops the others
from_bits_truncate(b) ==
  Bit(b, 0) * StatusRetransmit + Bit(b, 1) * StatusContinuation
    + Bit(b, 3) * StatusChangeType

\* Status::default() = Status::empty()
StatusDefault == 0

\* u8::from(Status) = val.bits()
U8FromStatus(s) == s

(***************************************************************************)
(* OpCode.                                                                 *)
(***************************************************************************)
Ack == [tag |-> "Ack"]
Nack == [tag |-> "Nack"]
DecodeData == [tag |-> "DecodeData"]
Other(b) == [tag |-> "Other", val |-> b]

\* impl From<&u8> for OpCode
OpCodeFrom(b) ==
  CASE b = 208 -> Ack          \* 0xd0
    [] b = 209 -> Nack         \* 0xd1
    [] b = 243 -> DecodeData   \* 0xf3
    [] OTHER -> Other(b)

\* U8FromOpCode with the codes of Ack and Nack exchanged
U8FromOpCode_swapped(op) ==
  CASE op.tag = "Ack" -> 209
    [] op.tag = "Nack" -> 208
    [] op.tag = "DecodeData" -> 243
    [] op.tag = "Other" -> op.val

\* impl From<OpCode> for u8
U8FromOpCode(op) ==
  CASE op.tag = "Ack" -> 208
    [] op.tag = "Nack" -> 209
    [] op.tag = "DecodeData" -> 243
    [] op.tag = "Other" -> op.val

(***************************************************************************)
(* Source.                                                                 *)
(***************************************************************************)
Unreachable == "internal error: entered unreachable code"

\* impl From<&u8> for Source; any byte but 0x00 and 0x04 hits unreachable!()
SourceFrom(b) ==
  CASE b = 0 -> [tag |-> "Ok", val |-> "Scanner"]
    [] b = 4 -> [tag |-> "Ok", val |-> "Host"]
    [] OTHER -> [tag |-> "Panic", msg |-> Unreachable]

\* impl From<Source> for u8
U8FromSource(s) ==
  CASE s = "Scanner" -> 0
    [] s = "Host" -> 4

(***************************************************************************)
(* ContentType.                                                            *)
(***************************************************************************)
\* the enum: each variant with the code its declaration gives it
ContentTypeRepr ==
  [ Aztec |-> 45, AztecRune |-> 46, Bookland |-> 22, Chinese2of5 |-> 114,
    Codabar |-> 2, Code11 |-> 12, Code128 |-> 3, Code16K |-> 18,
    Code32 |-> 32, Code39 |-> 1, Code39Ascii |-> 19, Code49 |-> 13,
    Code93 |-> 7, Coupon |-> 23, CueCat |-> 56, Discrete2of5 |-> 4,
    DataMatrix |-> 27, Dotcode |-> 196, Ean13 |-> 11, Ean13Plus2 |-> 75,
    Ean13Plus5 |-> 139, Ean8 |-> 10, Ean8Plus2 |-> 74, Ean8Plus5 |-> 138,
    FrenchLottery |-> 47, GridMatrix |-> 200, Gs1_128 |-> 15,
    Gs1DataBarExpanded |-> 50, Gs1DataBarLimited |-> 49, Gs1DataBar14 |-> 48,
    Gs1DataMatrix |-> 193, Gs1Qr |-> 194, HanXin |-> 183, Iata |-> 5,
    Isbt128 |-> 25, Isbt128Concat |-> 33, Issn |-> 54, Interleaved2of5 |-> 6,
    Korean3of5 |-> 115, MacroMicroPdf |-> 154, MacroPdf417 |-> 40,
    MacroQr |-> 41, Mailmark |-> 195, Matrix2of5 |-> 57, Maxicode |-> 37,
    MicroPdf |-> 26, MicroPdfCca |-> 29, MicroQr |-> 44, Msi |-> 14,
    Multicode |-> 198, Multipacket |-> 153, Nw7 |-> 24, OcrB |-> 160,
    Pdf417 |-> 17, PlanetUs |-> 31, PostalAus |-> 35, PostalNl |-> 36,
    PostalJp |-> 34, PostalUk |-> 39, PostbarCa |-> 38, PostnetUs |-> 30,
    Qr |-> 28, RfidRaw |-> 224, RfidURI |-> 225, RssExpandedCoupon |-> 180,
    ScanletWebcode |-> 55, Signature |-> 105, Telepen |-> 202, Tlc39 |-> 90,
    Trioptic |-> 21, UdiParsed |-> 204, UpcA |-> 8, UpcAPlus2 |-> 72,
    UpcAPlus5 |-> 136, UpcE |-> 9, UpcEPlus2 |-> 73, UpcEPlus5 |-> 137,
    UpcE1 |-> 16, UpcE1Plus2 |-> 80, UpcE1Plus5 |-> 144, UkPlessy |-> 199,
    FourStateUs |-> 52, FourStateUs4 |-> 53 ]

\* the arms of the match in try_from, as <<byte, variant>>
ContentTypeMatch ==
  {
    <<1, "Code39">>, <<2, "Codabar">>, <<3, "Code128">>,
    <<4, "Discrete2of5">>, <<5, "Iata">>, <<6, "Interleaved2of5">>,
    <<7, "Code93">>, <<8, "UpcA">>, <<9, "UpcE">>, <<10, "Ean8">>,
    <<11, "Ean13">>, <<12, "Code11">>, <<13, "Code49">>, <<14, "Msi">>,
    <<15, "Gs1_128">>, <<16, "UpcE1">>, <<17, "Pdf417">>, <<18, "Code16K">>,
    <<19, "Code39Ascii">>, <<21, "Trioptic">>, <<22, "Bookland">>,
    <<23, "Coupon">>, <<24, "Nw7">>, <<25, "Isbt128">>, <<26, "MicroPdf">>,
    <<27, "DataMatrix">>, <<28, "Qr">>, <<29, "MicroPdfCca">>,
    <<30, "PostnetUs">>, <<31, "PlanetUs">>, <<32, "Code32">>,
    <<33, "Isbt128Concat">>, <<34, "PostalJp">>, <<35, "PostalAus">>,
    <<36, "PostalNl">>, <<37, "Maxicode">>, <<38, "PostbarCa">>,
    <<39, "PostalUk">>, <<40, "MacroPdf417">>, <<41, "MacroQr">>,
    <<44, "MicroQr">>, <<45, "Aztec">>, <<46, "AztecRune">>,
    <<47, "FrenchLottery">>, <<48, "Gs1DataBar14">>,
    <<49, "Gs1DataBarLimited">>, <<50, "Gs1DataBarExpanded">>,
    <<52, "FourStateUs">>, <<53, "FourStateUs4">>, <<54, "Issn">>,
    <<55, "ScanletWebcode">>, <<56, "CueCat">>, <<72, "UpcAPlus2">>,
    <<73, "UpcEPlus2">>, <<74, "Ean8Plus2">>, <<75, "Ean13Plus2">>,
    <<80, "UpcE1Plus2">>, <<90, "Tlc39">>, <<105, "Signature">>,
    <<113, "Matrix2of5">>, <<114, "Chinese2of5">>, <<115, "Korean3of5">>,
    <<136, "UpcAPlus5">>, <<137, "UpcEPlus5">>, <<138, "Ean8Plus5">>,
    <<139, "Ean13Plus5">>, <<144, "UpcE1Plus5">>, <<153, "Multipacket">>,
    <<154, "MacroMicroPdf">>, <<160, "OcrB">>, <<180, "RssExpandedCoupon">>,
    <<183, "HanXin">>, <<193, "Gs1DataMatrix">>, <<194, "Gs1Qr">>,
    <<195, "Mailmark">>, <<196, "Dotcode">>, <<198, "Multicode">>,
    <<199, "UkPlessy">>, <<200, "GridMatrix">>, <<202, "Telepen">>,
    <<204, "UdiParsed">>, <<224, "RfidRaw">>, <<225, "RfidURI">>
  }

\* impl TryFrom<u8> for ContentType
ContentTypeTryFrom(b) ==
  IF \E arm \in ContentTypeMatch : arm[1] = b
  THEN [tag |-> "Ok",
        val |-> (CHOOSE arm \in ContentTypeMatch : arm[1] = b)[2]]
  ELSE [tag |-> "Err", val |-> "Unknown content type"]

(***************************************************************************)
(* Checksum, decode, wrap.                                                 *)
(***************************************************************************)
AddOverflow == "attempt to add with overflow"
NegOverflow == "attempt to negate with overflow"
UnwrapErr == "called Result::unwrap() on an Err value"
NoPanic == "none"

\* payload.iter().cloned().map(u16::from).sum::<u16>() over payload[lo..hi].
\* u16 addition is associative and the summands are not negative, so the
\* halves may be summed apart: the value and the overflow flag are those of
\* the left-to-right sum.
RECURSIVE sum_u16(_, _, _)
sum_u16(payload, lo, hi) ==
  IF lo > hi THEN [val |-> 0, overflow |-> FALSE]
  ELSE IF lo = hi THEN [val |-> payload[lo], overflow |-> FALSE]
  ELSE LET mid == (lo + hi) \div 2
           l == sum_u16(payload, lo, mid)
           r == sum_u16(payload, mid + 1, hi)
           t == add_u16(l.val, r.val)
       IN [val |-> t.val, overflow |-> l.overflow \/ r.overflow \/ t.overflow]

\* fn calc_checksum(size: u8, payload: &[u8]) -> u16
calc_checksum(size, payload) ==
  LET s == sum_u16(payload, 1, Len(payload))
      t == add_u16(size, s.val)
  IN [val |-> t.val, overflow |-> s.overflow \/ t.overflow]

InvalidChecksum == [tag |-> "Err", err |-> "InvalidChecksum"]
InvalidMessageLength == [tag |-> "Err", err |-> "InvalidMessageLength"]
Panicked(m) == [tag |-> "Panic", msg |-> m]
NoResponse == [tag |-> "None"]

RawMessage(length, opcode, source, status, data) ==
  [tag |-> "Ok", length |-> length, opcode |-> opcode, source |-> source,
   status |-> status, data |-> data]

\* decode splitting the payload into its fields before the integrity check
decode_fields_first(buf, oc) ==
  IF Len(buf) < 3 THEN InvalidMessageLength
  ELSE
    LET n == Len(buf)
        length == buf[1]
        payload == SubSeq(buf, 2, n - 2)
        neg == neg_i16(i16_from_be_bytes(buf[n - 1], buf[n]))
        checksum == i16_as_u16(neg.val)
        sum == calc_checksum(length, payload)
    IN IF Len(payload) < 3 THEN InvalidMessageLength
       ELSE IF oc /\ neg.overflow THEN Panicked(NegOverflow)
       ELSE IF oc /\ sum.overflow THEN Panicked(AddOverflow)
       ELSE IF sum.val # checksum THEN InvalidChecksum
       ELSE
         LET source == SourceFrom(payload[2])
         IN IF source.tag = "Panic" THEN Panicked(source.msg)
            ELSE RawMessage(length, OpCodeFrom(payload[1]), source.val,
                            from_bits_truncate(payload[3]),
                            SubSeq(payload, 4, Len(payload)))

\* fn decode(message: &[u8]) -> Result<RawMessage, DecodeError> applied to
\* buf, in a build whose overflow checks are oc
decode(buf, oc) ==
  IF Len(buf) < 3 THEN InvalidMessageLength
  ELSE
    LET n == Len(buf)
        length == buf[1]
        payload == SubSeq(buf, 2, n - 2)
        neg == neg_i16(i16_from_be_bytes(buf[n - 1], buf[n]))
        checksum == i16_as_u16(neg.val)
        sum == calc_checksum(length, payload)
    IN IF oc /\ neg.overflow THEN Panicked(NegOverflow)
       ELSE IF oc /\ sum.overflow THEN Panicked(AddOverflow)
       ELSE IF sum.val # checksum THEN InvalidChecksum
       ELSE IF Len(payload) < 3 THEN InvalidMessageLength
       ELSE
         LET source == SourceFrom(payload[2])
         IN IF source.tag = "Panic" THEN Panicked(source.msg)
            ELSE RawMessage(length, OpCodeFrom(payload[1]), source.val,
                            from_bits_truncate(payload[3]),
                            SubSeq(payload, 4, Len(payload)))

\* wrap whose size does not count the size byte
wrap_size_of_data(data, oc) ==
  LET size == Len(data) % U8Modulus
      checksum == calc_checksum(size, data)
      neg == neg_i16(u16_as_i16(checksum.val))
  IN IF oc /\ checksum.overflow THEN Panicked(AddOverflow)
     ELSE IF oc /\ neg.overflow THEN Panicked(NegOverflow)
     ELSE [tag |-> "Ok",
           bytes |-> <<size>> \o data \o i16_to_be_bytes(neg.val)]

\* fn wrap(data: Vec<u8>) -> Vec<u8>, in a build whose overflow checks are oc
wrap(data, oc) ==
  LET size == add_u8(Len(data) % U8Modulus, 1)
      checksum == calc_checksum(size.val, data)
      neg == neg_i16(u16_as_i16(checksum.val))
  IN IF oc /\ (size.overflow \/ checksum.overflow) THEN Panicked(AddOverflow)
     ELSE IF oc /\ neg.overflow THEN Panicked(NegOverflow)
     ELSE [tag |-> "Ok",
           bytes |-> <<size.val>> \o data \o i16_to_be_bytes(neg.val)]

(***************************************************************************)
(* What port.read may deliver: any buffer of at most BufSize bytes.  The   *)
(* model reads unframed buffers over RawBytes, frames a peer has           *)
(* checksummed (with the right length byte or with the length byte 9), and long  *)
(* frames filled with 0xff.                                                *)
(***************************************************************************)
Seqs(S, n) == UNION {[1..k -> S] : k \in 0..n}
Fill(n, b) == [i \in 1..n |-> b]

RawBytes == {0, 1, 128, 208}
OpBytes == {208, 209, 243, 7}       \* Ack, Nack, DecodeData, Other(7)
SourceBytes == {0, 4, 1}            \* Scanner, Host, neither
StatusBytes == {0, 27}              \* empty; the named bits and bit 4
DataBytes == {28, 51}               \* 0x1c (Qr), 0x33 (no content type)

\* the frame a peer sends for length byte l and payload p: the two's
\* complement of l + sum(p), big-endian, after them
PeerFrame(l, p) ==
  <<l>> \o p \o i16_to_be_bytes(neg_i16(u16_as_i16(calc_checksum(l, p).val)).val)

Payloads ==
  {<<op, src, st>> \o d : op \in OpBytes, src \in SourceBytes,
                          st \in StatusBytes, d \in Seqs(DataBytes, MaxData)}
    \cup Seqs({0, 208}, 2)

Frames ==
  UNION {{PeerFrame((Len(p) + 1) % U8Modulus, p), PeerFrame(9, p)} :
           p \in Payloads}

LongFrames ==
  {PeerFrame((n + 4) % U8Modulus, <<208, src, 0>> \o Fill(n, 255)) :
     src \in {0, 4}, n \in (MaxFill - 1)..(MaxFill + 1)}

Inputs ==
  {b \in Seqs(RawBytes, MaxRawLen) \cup Frames \cup LongFrames : Len(b) <= BufSize}

(***************************************************************************)
(* pub async fn run: the loop of read, decode, acknowledge, print.         *)
(***************************************************************************)
NoConv == [fn |-> "none"]

\* String::from_utf8_lossy on bytes that are ASCII (kept) or can start no
\* UTF-8 sequence (each replaced by U+FFFD), as code points
from_utf8_lossy(content) ==
  [i \in 1..Len(content) |-> IF content[i] < 128 THEN content[i] ELSE 65533]

\* the println! calls of the Ok arm, in order, for the frame r
Printed(r) ==
  <<<<"Length", r.length>>, <<"Opcode", r.opcode>>, <<"Source", r.source>>,
    <<"Status", r.status>>>>
  \o IF r.opcode.tag # "DecodeData" THEN <<>>
     ELSE IF Len(r.data) = 0 THEN <<<<"Invalid DecodeData">>>>
     ELSE LET content_type == ContentTypeTryFrom(r.data[1])
          IN <<IF content_type.tag = "Ok"
                 THEN <<"Type", content_type.val>>
                 ELSE <<"Unknown type", r.data[1]>>,
               <<"Decoded msg", from_utf8_lossy(Tail(r.data))>>>>

\* the Ack the loop answers with
AckFields == <<U8FromOpCode(Ack), U8FromSource("Host"), U8FromStatus(StatusDefault)>>

Init ==
  /\ overflow_checks \in BOOLEAN
  /\ pc = "read"
  /\ read_result = "none"
  /\ message = <<>>
  /\ response = NoResponse
  /\ panic = NoPanic
  /\ port_out = <<>>
  /\ console = <<>>
  /\ reads = 0
  /\ fields = <<>>
  /\ val = 0
  /\ conv = NoConv

\* port.read returns Ok(t): message is &serial_buf[..t]
ReadOk ==
  /\ pc = "read"
  /\ reads < MaxReads
  /\ \E buf \in Inputs : message' = buf
  /\ read_result' = "Ok"
  /\ reads' = reads + 1
  /\ response' = NoResponse
  /\ console' = <<>>
  /\ pc' = "decode"
  /\ UNCHANGED <<overflow_checks, panic, port_out, fields, val, conv>>

\* port.read returns Err of kind TimedOut: nothing is done
ReadTimedOut ==
  /\ pc = "read"
  /\ reads < MaxReads
  /\ read_result' = "TimedOut"
  /\ reads' = reads + 1
  /\ response' = NoResponse
  /\ console' = <<>>
  /\ pc' = "read"
  /\ UNCHANGED <<overflow_checks, message, panic, port_out, fields, val, conv>>

\* port.read returns another Err: it is printed to stderr
ReadErr ==
  /\ pc = "read"
  /\ reads < MaxReads
  /\ read_result' = "Err"
  /\ reads' = reads + 1
  /\ response' = NoResponse
  /\ console' = <<<<"stderr", "io error">>>>
  /\ pc' = "read"
  /\ UNCHANGED <<overflow_checks, message, panic, port_out, fields, val, conv>>

\* decode returns Ok: the Ack is wrapped and written, write's result is
\* unwrapped, the frame is printed
HandleOk ==
  /\ pc = "decode"
  /\ LET r == decode(message, overflow_checks)
         ack == wrap(AckFields, overflow_checks)
     IN /\ r.tag = "Ok"
        /\ response' = r
        /\ IF ack.tag = "Panic"
           THEN /\ pc' = "panicked"
                /\ panic' = ack.msg
                /\ UNCHANGED <<port_out, console>>
           ELSE /\ port_out' = Append(port_out, ack.bytes)
                /\ \E written \in {"Ok", "Err"} :
                     IF written = "Err"
                     THEN /\ pc' = "panicked"
                          /\ panic' = UnwrapErr
                          /\ UNCHANGED console
                     ELSE /\ pc' = "read"
                          /\ console' = Printed(r)
                          /\ UNCHANGED panic
  /\ UNCHANGED <<overflow_checks, read_result, message, reads, fields, val, conv>>

\* HandleErr answering a decode error with a Nack frame
HandleErr_nack ==
  /\ pc = "decode"
  /\ LET r == decode(message, overflow_checks)
     IN /\ r.tag = "Err"
        /\ response' = r
        /\ console' = <<<<"Error decoding data", r.err>>>>
  /\ port_out' = Append(port_out, PeerFrame(4, <<209, 4, 0>>))
  /\ pc' = "read"
  /\ UNCHANGED <<overflow_checks, read_result, message, panic, reads,
                 fields, val, conv>>

\* decode returns Err: the error is printed, nothing is written
HandleErr ==
  /\ pc = "decode"
  /\ LET r == decode(message, overflow_checks)
     IN /\ r.tag = "Err"
        /\ response' = r
        /\ console' = <<<<"Error decoding data", r.err>>>>
  /\ pc' = "read"
  /\ UNCHANGED <<overflow_checks, read_result, message, panic, port_out, reads,
                 fields, val, conv>>

\* decode panics: the program ends
HandlePanic ==
  /\ pc = "decode"
  /\ LET r == decode(message, overflow_checks)
     IN /\ r.tag = "Panic"
        /\ panic' = r.msg
  /\ pc' = "panicked"
  /\ UNCHANGED <<overflow_checks, read_result, message, response, port_out,
                 console, reads, fields, val, conv>>

Next ==
  \/ ReadOk
  \/ ReadTimedOut
  \/ ReadErr
  \/ HandleOk
  \/ HandleErr
  \/ HandlePanic

Spec == Init /\ [][Next]_vars

(***************************************************************************)
(* The tables applied to one byte.                                         *)
(***************************************************************************)
InitTables ==
  /\ overflow_checks \in BOOLEAN
  /\ pc = "tables"
  /\ read_result = "none"
  /\ message = <<>>
  /\ response = NoResponse
  /\ panic = NoPanic
  /\ port_out = <<>>
  /\ console = <<>>
  /\ reads = 0
  /\ fields = <<>>
  /\ val \in Byte
  /\ conv = NoConv

TablesUnchanged ==
  UNCHANGED <<overflow_checks, read_result, message, response, port_out,
              console, reads, fields, val>>

\* OpCode::from(&val)
ConvOpCodeFrom ==
  /\ pc = "tables" /\ conv = NoConv
  /\ conv' = [fn |-> "OpCode::from", out |-> OpCodeFrom(val)]
  /\ UNCHANGED <<pc, panic>> /\ TablesUnchanged

\* u8::from(op) for the OpCode just made
ConvU8FromOpCode ==
  /\ pc = "tables" /\ conv.fn = "OpCode::from"
  /\ conv' = [fn |-> "u8::from(OpCode)", out |-> U8FromOpCode(conv.out)]
  /\ UNCHANGED <<pc, panic>> /\ TablesUnchanged

\* Source::from(&val)
ConvSourceFrom ==
  /\ pc = "tables" /\ conv = NoConv
  /\ LET r == SourceFrom(val)
     IN IF r.tag = "Panic"
        THEN pc' = "panicked" /\ panic' = r.msg /\ UNCHANGED conv
        ELSE conv' = [fn |-> "Source::from", out |-> r.val]
             /\ UNCHANGED <<pc, panic>>
  /\ TablesUnchanged

\* u8::from(source) for the Source just made
ConvU8FromSource ==
  /\ pc = "tables" /\ conv.fn = "Source::from"
  /\ conv' = [fn |-> "u8::from(Source)", out |-> U8FromSource(conv.out)]
  /\ UNCHANGED <<pc, panic>> /\ TablesUnchanged

\* Status::from_bits_truncate(val)
ConvStatusTruncate ==
  /\ pc = "tables" /\ conv = NoConv
  /\ conv' = [fn |-> "Status::from_bits_truncate", out |-> from_bits_truncate(val)]
  /\ UNCHANGED <<pc, panic>> /\ TablesUnchanged

\* ContentType::try_from(val)
ConvContentTypeTryFrom ==
  /\ pc = "tables" /\ conv = NoConv
  /\ conv' = [fn |-> "ContentType::try_from", out |-> ContentTypeTryFrom(val)]
  /\ UNCHANGED <<pc, panic>> /\ TablesUnchanged

NextTables ==
  \/ ConvOpCodeFrom
  \/ ConvU8FromOpCode
  \/ ConvSourceFrom
  \/ ConvU8FromSource
  \/ ConvStatusTruncate
  \/ ConvContentTypeTryFrom

SpecTables == InitTables /\ [][NextTables]_vars

(***************************************************************************)
(* wrap followed by decode on one field sequence.                          *)
(***************************************************************************)
FieldBytes == {0, 1, 4, 208, 243}

\* the longest arguments the length byte can count: 252 and 253 bytes
LongFields == {<<208, src, 0>> \o Fill(n, 255) : src \in {0, 4}, n \in 249..250}

InitCodec ==
  /\ overflow_checks \in BOOLEAN
  /\ pc = "wrap"
  /\ read_result = "none"
  /\ message = <<>>
  /\ response = NoResponse
  /\ panic = NoPanic
  /\ port_out = <<>>
  /\ console = <<>>
  /\ reads = 0
  /\ fields \in Seqs(FieldBytes, MaxFields) \cup LongFields
  /\ val = 0
  /\ conv = NoConv

CodecUnchanged ==
  UNCHANGED <<overflow_checks, read_result, port_out, console, reads, fields,
              val, conv>>

\* message = wrap(fields)
CodecWrap ==
  /\ pc = "wrap"
  /\ LET w == wrap(fields, overflow_checks)
     IN IF w.tag = "Panic"
        THEN pc' = "panicked" /\ panic' = w.msg /\ UNCHANGED message
        ELSE pc' = "wrapped" /\ message' = w.bytes /\ UNCHANGED panic
  /\ UNCHANGED response /\ CodecUnchanged

\* response = decode(&message)
CodecDecode ==
  /\ pc = "wrapped"
  /\ LET r == decode(message, overflow_checks)
     IN IF r.tag = "Panic"
        THEN pc' = "panicked" /\ panic' = r.msg /\ UNCHANGED response
        ELSE pc' = "done" /\ response' = r /\ UNCHANGED panic
  /\ UNCHANGED message /\ CodecUnchanged

NextCodec ==
  \/ CodecWrap
  \/ CodecDecode

SpecCodec == InitCodec /\ [][NextCodec]_vars

(***************************************************************************)
(* Properties.                                                             *)
(***************************************************************************)
\* the latest read delivered message and its handling is over
Handled == read_result = "Ok" /\ pc \in {"read", "panicked"}

\* the bytes between the length byte and the two checksum bytes
PayloadOf(m) == SubSeq(m, 2, Len(m) - 2)

\* the sum of s[lo..hi] as a natural number
RECURSIVE ByteSum(_, _, _)
ByteSum(s, lo, hi) ==
  IF lo > hi THEN 0
  ELSE IF lo = hi THEN s[lo]
  ELSE LET mid == (lo + hi) \div 2
       IN ByteSum(s, lo, mid) + ByteSum(s, mid + 1, hi)

\* length byte + payload bytes + the big-endian checksum is 0 modulo 2^16
ChecksumVerifies(m) ==
  (ByteSum(m, 1, Len(m) - 2) + m[Len(m) - 1] * 256 + m[Len(m)]) % 65536 = 0

FlipBit(b, k) == IF Bit(b, k) = 1 THEN b - 2 ^ k ELSE b + 2 ^ k
FlipAt(m, i, k) == [m EXCEPT ![i] = FlipBit(m[i], k)]

\* C1: for every field sequence f that has the three header bytes the claim
\* reads and at most 253 bytes, decode(wrap(f)) returns Ok, and the frame has
\* length len(f)+1, the opcode of f[0], the source of f[1], the truncated
\* status of f[2] and the data f[3..].
C1_RoundTrip ==
  (pc \in {"done", "panicked"} /\ Len(fields) >= 3 /\ Len(fields) <= 253) =>
    /\ pc = "done"
    /\ response.tag = "Ok"
    /\ response.length = Len(fields) + 1
    /\ response.opcode = OpCodeFrom(fields[1])
    /\ fields[2] \in {0, 4}
    /\ response.source = (IF fields[2] = 0 THEN "Scanner" ELSE "Host")
    /\ response.status = from_bits_truncate(fields[3])
    /\ response.data = SubSeq(fields, 4, Len(fields))

\* C2: when decode has accepted a buffer, the buffer with any one bit of its
\* length byte or of a payload byte flipped, checksum bytes as they were,
\* makes decode return Err(InvalidChecksum).
C2_ChecksumSensitivity ==
  (Handled /\ response.tag = "Ok") =>
    \A i \in 1..(Len(message) - 2), k \in 0..7 :
      decode(FlipAt(message, i, k), overflow_checks) = InvalidChecksum

AckFrame == <<4, 208, 4, 0, 255, 40>>

\* C4: the step that handles a buffer decode accepts hands exactly one
\* buffer to port.write, the Ack frame 04 d0 04 00 ff 28, whatever the frame
\* received; no other step writes, so it is the one write before the next
\* read.
C4_AlwaysAck ==
  [][/\ (pc = "decode" /\ response'.tag = "Ok") =>
          port_out' = Append(port_out, AckFrame)
     /\ ~(pc = "decode" /\ response'.tag = "Ok") => port_out' = port_out]_vars

\* C4 witness: a Nack frame was received and acknowledged, and the loop is
\* back at the read.
C4_Witness ==
  /\ pc = "read"
  /\ response.tag = "Ok"
  /\ response.opcode = Nack
  /\ port_out = <<AckFrame>>

\* C5: a read that times out, and the handling of a buffer for which decode
\* returns an error, write nothing and leave the loop at its next read.
C5_NoAckOnFailure ==
  [][/\ (pc = "read" /\ reads' = reads + 1 /\ read_result' = "TimedOut") =>
          (port_out' = port_out /\ pc' = "read" /\ panic' = NoPanic)
     /\ (pc = "decode" /\ response'.tag = "Err") =>
          (port_out' = port_out /\ pc' = "read" /\ panic' = NoPanic)]_vars

\* C5 witness: decode returned an error, nothing has been written and the
\* loop is at the read again.
C5_Witness ==
  /\ pc = "read"
  /\ read_result = "Ok"
  /\ response.tag = "Err"
  /\ port_out = <<>>
  /\ reads >= 1

\* C6: every frame decode accepts has length = 1 + len(payload), the payload
\* being the bytes between the length byte and the checksum bytes, that is
\* length = 4 + len(data).  Stated for the frames whose payload the length
\* byte can count (at most 254 bytes).
C6_LengthCountsPayload ==
  (Handled /\ response.tag = "Ok" /\ Len(PayloadOf(message)) < U8Modulus - 1) =>
    /\ response.length = 1 + Len(PayloadOf(message))
    /\ response.length = 4 + Len(response.data)

DeclaredCodes == {ContentTypeRepr[v] : v \in DOMAIN ContentTypeRepr}

\* C7: ContentType::try_from(b) is Ok exactly when b is the declared code of
\* a variant, and then it is the variant whose declared code is b.
C7_ContentTypeMapping ==
  conv.fn = "ContentType::try_from" =>
    /\ conv.out.tag = "Ok" <=> val \in DeclaredCodes
    /\ conv.out.tag = "Ok" => ContentTypeRepr[conv.out.val] = val

\* C8: every byte maps to an OpCode (0xd0 Ack, 0xd1 Nack, 0xf3 DecodeData,
\* any other b Other(b)) and mapping that OpCode back gives the byte.
C8_OpCodeTotalInverse ==
  /\ conv.fn = "OpCode::from" =>
       conv.out = (IF val = 208 THEN Ack
                   ELSE IF val = 209 THEN Nack
                   ELSE IF val = 243 THEN DecodeData
                   ELSE Other(val))
  /\ conv.fn = "u8::from(OpCode)" => conv.out = val

\* C8 witness: 0xd1 was mapped to an OpCode and back to 0xd1.
C8_Witness ==
  /\ conv.fn = "u8::from(OpCode)"
  /\ val = 209
  /\ conv.out = 209

\* C9: the checksum arithmetic never faults: no run ends in an overflow
\* panic of the addition or of the negation, and for every buffer handled
\* calc_checksum is (size + sum of the payload bytes) mod 65536.
C9_ChecksumWraps ==
  /\ panic \notin {AddOverflow, NegOverflow}
  /\ (Handled /\ Len(message) >= 3) =>
       calc_checksum(message[1], PayloadOf(message)).val
         = (message[1] + ByteSum(message, 2, Len(message) - 2)) % 65536

\* C10: the unreachable!() arm of the Source mapping is never reached.
C10_SourceNeverUnreachable == panic # Unreachable

====
